---- MODULE Spec2Model ----
(***************************************************************************)
(* Model of os/src/fs/inode.rs: the Open-File Object (OSInode), the        *)
(* Link-Count Table (INODE_LINK_MAP) and the open/link/unlink operations,  *)
(* on top of the easy-fs engine reached through ROOT_INODE.                *)
(***************************************************************************)
EXTENDS Integers, Sequences, FiniteSets, TLC

\* ---- bounds of the model ----
MaxNames == 2
MaxInodes == 1
MaxHandles == 2
EngineCapacity == 2

\* ---- program constants ----
WRONLY == 1
RDWR == 2
CREATE == 512
TRUNC == 1024
NoInode == 0
NoSlot == 0

Names == 1..MaxNames
Inodes == 1..MaxInodes
Slots == 1..MaxHandles
AllFlags == {w + r + c + t : w \in {0, WRONLY}, r \in {0, RDWR}, c \in {0, CREATE}, t \in {0, TRUNC}}
\* the flag sets the open calls of the state machine pass: RDWR with or without CREATE and TRUNC
OpenInputs == {RDWR + c + t : c \in {0, CREATE}, t \in {0, TRUNC}}

VARIABLES
  dir,             \* ROOT_INODE's directory: name -> inode id, NoInode when the name does not resolve
  nextIno,         \* number of inodes the engine has allocated so far
  data,            \* inode id -> its byte contents
  INODE_LINK_MAP,  \* the Link-Count Table: a function from some inode ids to u32 counts
  handles,         \* slot -> Open-File Object (OSInode)
  moved,           \* slot -> bytes the engine transferred for the handle's completed calls
  panicked,        \* the kernel has hit a panic (assert_eq! failure, overflow check)
  lastOp,          \* the last call made: its name, arguments and result
  call,            \* the link_file or unlink_file call under way, statement by statement
  tableHeld,       \* INODE_LINK_MAP.exclusive_access() is held
  paths,           \* call path -> the read, write or read_all call it is inside
  holder           \* slot -> the call path holding the object's inner.exclusive_access(), or 0

vars == <<dir, nextIno, data, INODE_LINK_MAP, handles, moved, panicked, lastOp,
          call, tableHeld, paths, holder>>

\* the state of the calls that are followed statement by statement
stepVars == <<call, tableHeld, paths, holder>>

Min(a, b) == IF a < b THEN a ELSE b
Max(a, b) == IF a > b THEN a ELSE b

RECURSIVE Zeros(_)
Zeros(n) == IF n <= 0 THEN <<>> ELSE <<0>> \o Zeros(n - 1)

RECURSIVE SumLen(_)
SumLen(ss) == IF ss = <<>> THEN 0 ELSE Len(Head(ss)) + SumLen(Tail(ss))

RECURSIVE Sum(_)
Sum(s) == IF s = <<>> THEN 0 ELSE Head(s) + Sum(Tail(s))

\* ---------------------------------------------------------------------
\* The Filesystem Engine (easy_fs::Inode), as the operations this file calls
\* ---------------------------------------------------------------------
FS == [dir |-> dir, next |-> nextIno, data |-> data]

\* ROOT_INODE.find(name): the inode id the name resolves to, or NoInode
find(fs, name) == fs.dir[name]

\* ROOT_INODE.create(name): a fresh inode under name, or nothing when the engine refuses
create(fs, name, ok) ==
  IF ok /\ fs.next < MaxInodes /\ fs.dir[name] = NoInode
  THEN [some |-> TRUE, ino |-> fs.next + 1,
        fs |-> [dir |-> [fs.dir EXCEPT ![name] = fs.next + 1],
                next |-> fs.next + 1,
                data |-> [fs.data EXCEPT ![fs.next + 1] = <<>>]]]
  ELSE [some |-> FALSE, ino |-> NoInode, fs |-> fs]

\* ROOT_INODE.create_link(new_name, target): a new entry new_name for inode target
create_link(fs, new_name, target, ok) ==
  IF ok /\ fs.dir[new_name] = NoInode
  THEN [some |-> TRUE, ino |-> target,
        fs |-> [fs EXCEPT !.dir = [fs.dir EXCEPT ![new_name] = target]]]
  ELSE [some |-> FALSE, ino |-> NoInode, fs |-> fs]

\* inode.unlink(name): the name is flagged removed and no longer resolves
unlink(fs, name) == [fs EXCEPT !.dir = [fs.dir EXCEPT ![name] = NoInode]]

\* inode.clear(): the inode's size becomes 0
clear(fs, ino) == [fs EXCEPT !.data = [fs.data EXCEPT ![ino] = <<>>]]

\* inode.read_at(offset, buf): the bytes copied into a buffer of length len
read_at(content, offset, len) ==
  IF offset >= Len(content) THEN <<>>
  ELSE SubSeq(content, offset + 1, Min(offset + len, Len(content)))

\* inode.write_at(offset, buf): the count written and the contents afterwards
write_at(content, offset, buf) ==
  LET n == Min(Len(buf), Max(0, EngineCapacity - offset))
      padded == content \o Zeros(offset - Len(content))
      size == Max(Len(padded), offset + n)
  IN [n |-> n,
      content |-> [i \in 1..size |->
                     IF i > offset /\ i <= offset + n THEN buf[i - offset]
                     ELSE padded[i]]]

\* ---------------------------------------------------------------------
\* OpenFlags
\* ---------------------------------------------------------------------
contains(flags, bit) == (flags \div bit) % 2 = 1
is_empty(flags) == flags = 0

\* read_write that looks at the RDWR bit before the WRONLY bit
read_write_rdwr_first(flags) ==
  IF is_empty(flags) THEN <<TRUE, FALSE>>
  ELSE IF contains(flags, RDWR) THEN <<TRUE, TRUE>>
  ELSE IF contains(flags, WRONLY) THEN <<FALSE, TRUE>>
  ELSE <<TRUE, TRUE>>

read_write(flags) ==
  IF is_empty(flags) THEN <<TRUE, FALSE>>
  ELSE IF contains(flags, WRONLY) THEN <<FALSE, TRUE>>
  ELSE <<TRUE, TRUE>>

\* ---------------------------------------------------------------------
\* OSInode
\* ---------------------------------------------------------------------
NoHandle == [live |-> FALSE, readable |-> FALSE, writable |-> FALSE, offset |-> 0, inode |-> NoInode]

\* OSInode_new with the cursor taken from the size of a one-byte file
OSInode_new_offset1(readable, writable, inode) ==
  [live |-> TRUE, readable |-> readable, writable |-> writable, offset |-> 1, inode |-> inode]

OSInode_new(readable, writable, inode) ==
  [live |-> TRUE, readable |-> readable, writable |-> writable, offset |-> 0, inode |-> inode]


\* inode.is_dir(): every inode a name under the root resolves to is a regular file
is_dir(ino) == ino = NoInode

\* map.get(key).cloned().unwrap_or(default)
get_or(map, key, default) == IF key \in DOMAIN map THEN map[key] ELSE default

\* map.insert(key, value)
insert(map, key, value) ==
  [k \in DOMAIN map \cup {key} |-> IF k = key THEN value ELSE map[k]]

\* map.remove(key)
remove(map, key) == [k \in DOMAIN map \ {key} |-> map[k]]

\* read_advance by the length asked for
read_advance_requested(offset, read_size, slice_len) == offset + slice_len

\* inner.offset += read_size
read_advance(offset, read_size, slice_len) == offset + read_size

\* read_loop that goes on to the next slice after a read of 0 bytes
RECURSIVE read_loop_nobreak(_, _, _, _, _)
read_loop_nobreak(content, offset, slices, total_read_size, got) ==
  IF slices = <<>>
  THEN [offset |-> offset, total |-> total_read_size, got |-> got]
  ELSE LET chunk == read_at(content, offset, Head(slices))
           read_size == Len(chunk)
       IN IF read_size = 0
          THEN read_loop_nobreak(content, offset, Tail(slices), total_read_size, got)
          ELSE read_loop_nobreak(content, read_advance(offset, read_size, Head(slices)),
                                 Tail(slices), total_read_size + read_size,
                                 Append(got, chunk))

\* OSInode::read: slices are the lengths of the destination slices
RECURSIVE read_loop(_, _, _, _, _)
read_loop(content, offset, slices, total_read_size, got) ==
  IF slices = <<>>
  THEN [offset |-> offset, total |-> total_read_size, got |-> got]
  ELSE LET chunk == read_at(content, offset, Head(slices))
           read_size == Len(chunk)
       IN IF read_size = 0
          THEN [offset |-> offset, total |-> total_read_size, got |-> got]
          ELSE read_loop(content, read_advance(offset, read_size, Head(slices)),
                         Tail(slices), total_read_size + read_size, Append(got, chunk))

\* read that first pulls a cursor beyond the end of the file back to the end
read_clamped(inner, content, slices) ==
  LET r == read_loop(content, Min(inner.offset, Len(content)), slices, 0, <<>>)
  IN [inner |-> [inner EXCEPT !.offset = r.offset], ret |-> r.total, got |-> r.got]

read(inner, content, slices) ==
  LET r == read_loop(content, inner.offset, slices, 0, <<>>)
  IN [inner |-> [inner EXCEPT !.offset = r.offset], ret |-> r.total, got |-> r.got]

\* write_advance with the cursor left where it was
write_advance_none(offset, write_size, slice_len) == offset

\* inner.offset += write_size
write_advance(offset, write_size, slice_len) == offset + write_size

\* assert_eq! compiled out
assert_eq_skipped(left, right) == TRUE

\* assert_eq!(write_size, slice.len()): FALSE is the panic
assert_eq(left, right) == left = right

\* OSInode::write: bufs are the source slices; a short engine write fails the assert_eq!
RECURSIVE write_loop(_, _, _, _, _)
write_loop(content, offset, bufs, total_write_size, xfer) ==
  IF bufs = <<>>
  THEN [offset |-> offset, total |-> total_write_size, content |-> content,
        xfer |-> xfer, panic |-> FALSE]
  ELSE LET w == write_at(content, offset, Head(bufs))
       IN IF ~assert_eq(w.n, Len(Head(bufs)))
          THEN [offset |-> offset, total |-> total_write_size, content |-> w.content,
                xfer |-> Append(xfer, w.n), panic |-> TRUE]
          ELSE write_loop(w.content, write_advance(offset, w.n, Len(Head(bufs))),
                          Tail(bufs), total_write_size + w.n, Append(xfer, w.n))

write(inner, content, bufs) ==
  LET r == write_loop(content, inner.offset, bufs, 0, <<>>)
  IN [inner |-> [inner EXCEPT !.offset = r.offset], ret |-> r.total,
      content |-> r.content, xfer |-> r.xfer, panic |-> r.panic]

\* stat with 0 for the link count of an inode without an entry
stat_default0(inner, map) ==
  [dev |-> 0,
   ino |-> inner.inode,
   mode |-> IF is_dir(inner.inode) THEN "DIR" ELSE "FILE",
   nlink |-> get_or(map, inner.inode, 0)]

\* OSInode::stat
stat(inner, map) ==
  [dev |-> 0,
   ino |-> inner.inode,
   mode |-> IF is_dir(inner.inode) THEN "DIR" ELSE "FILE",
   nlink |-> get_or(map, inner.inode, 1)]

\* ---------------------------------------------------------------------
\* open_file, link_file, unlink_file
\* ---------------------------------------------------------------------
\* open_file that leaves an existing file's contents alone when CREATE is set
open_file_noclear(fs, name, flags, ok) ==
  LET rw == read_write(flags)
      found == find(fs, name)
  IN IF found # NoInode
     THEN [some |-> TRUE, handle |-> OSInode_new(rw[1], rw[2], found),
           fs |-> IF ~contains(flags, CREATE) /\ contains(flags, TRUNC)
                  THEN clear(fs, found) ELSE fs]
     ELSE IF contains(flags, CREATE)
          THEN LET c == create(fs, name, ok)
               IN [some |-> c.some,
                   handle |-> IF c.some THEN OSInode_new(rw[1], rw[2], c.ino) ELSE NoHandle,
                   fs |-> c.fs]
          ELSE [some |-> FALSE, handle |-> NoHandle, fs |-> fs]

\* open_file that creates a missing name whether or not CREATE is set
open_file_always_create(fs, name, flags, ok) ==
  LET rw == read_write(flags)
      found == find(fs, name)
  IN IF found # NoInode
     THEN [some |-> TRUE, handle |-> OSInode_new(rw[1], rw[2], found),
           fs |-> IF contains(flags, CREATE) \/ contains(flags, TRUNC)
                  THEN clear(fs, found) ELSE fs]
     ELSE LET c == create(fs, name, ok)
          IN [some |-> c.some,
              handle |-> IF c.some THEN OSInode_new(rw[1], rw[2], c.ino) ELSE NoHandle,
              fs |-> c.fs]

open_file(fs, name, flags, ok) ==
  LET rw == read_write(flags)
      found == find(fs, name)
  IN IF contains(flags, CREATE)
     THEN IF found # NoInode
          THEN [some |-> TRUE, handle |-> OSInode_new(rw[1], rw[2], found),
                fs |-> clear(fs, found)]
          ELSE LET c == create(fs, name, ok)
               IN [some |-> c.some,
                   handle |-> IF c.some THEN OSInode_new(rw[1], rw[2], c.ino) ELSE NoHandle,
                   fs |-> c.fs]
     ELSE IF found # NoInode
          THEN [some |-> TRUE, handle |-> OSInode_new(rw[1], rw[2], found),
                fs |-> IF contains(flags, TRUNC) THEN clear(fs, found) ELSE fs]
          ELSE [some |-> FALSE, handle |-> NoHandle, fs |-> fs]

\* link_count with the increment forgotten
link_count_noinc(old_count) == old_count

\* inner.insert(old_inode.get_inode().into(), old_count + 1)
link_count(old_count) == old_count + 1

\* link_file that takes a link of a name to itself for done
link_file_same_ok(fs, map, old_name, new_name, ok) ==
  IF old_name = new_name
  THEN [ret |-> 0, fs |-> fs, map |-> map, rkey |-> NoInode, wkey |-> NoInode]
  ELSE LET old_inode == find(fs, old_name)
       IN IF old_inode # NoInode
          THEN LET l == create_link(fs, new_name, old_inode, ok)
               IN IF l.some
                  THEN LET old_count == get_or(map, l.ino, 1)
                       IN [ret |-> 0, fs |-> l.fs,
                           map |-> insert(map, old_inode, link_count(old_count)),
                           rkey |-> l.ino, wkey |-> old_inode]
                  ELSE [ret |-> -1, fs |-> l.fs, map |-> map,
                        rkey |-> NoInode, wkey |-> NoInode]
          ELSE [ret |-> -1, fs |-> fs, map |-> map, rkey |-> NoInode, wkey |-> NoInode]

\* link_file that increments the count before it knows that create_link succeeded
link_file_count_first(fs, map, old_name, new_name, ok) ==
  IF old_name = new_name
  THEN [ret |-> -1, fs |-> fs, map |-> map, rkey |-> NoInode, wkey |-> NoInode]
  ELSE LET old_inode == find(fs, old_name)
       IN IF old_inode # NoInode
          THEN LET l == create_link(fs, new_name, old_inode, ok)
                   old_count == get_or(map, old_inode, 1)
                   counted == insert(map, old_inode, link_count(old_count))
               IN IF l.some
                  THEN [ret |-> 0, fs |-> l.fs, map |-> counted,
                        rkey |-> old_inode, wkey |-> old_inode]
                  ELSE [ret |-> -1, fs |-> l.fs, map |-> counted,
                        rkey |-> NoInode, wkey |-> NoInode]
          ELSE [ret |-> -1, fs |-> fs, map |-> map, rkey |-> NoInode, wkey |-> NoInode]

link_file(fs, map, old_name, new_name, ok) ==
  IF old_name = new_name
  THEN [ret |-> -1, fs |-> fs, map |-> map, rkey |-> NoInode, wkey |-> NoInode]
  ELSE LET old_inode == find(fs, old_name)
       IN IF old_inode # NoInode
          THEN LET l == create_link(fs, new_name, old_inode, ok)
               IN IF l.some
                  THEN LET old_count == get_or(map, l.ino, 1)
                       IN [ret |-> 0, fs |-> l.fs,
                           map |-> insert(map, old_inode, link_count(old_count)),
                           rkey |-> l.ino, wkey |-> old_inode]
                  ELSE [ret |-> -1, fs |-> l.fs, map |-> map,
                        rkey |-> NoInode, wkey |-> NoInode]
          ELSE [ret |-> -1, fs |-> fs, map |-> map, rkey |-> NoInode, wkey |-> NoInode]

\* u32 subtraction without overflow checks. A u32 is held as the signed integer with the
\* same 32 bits (TLC's integers are 32-bit signed), so 0 - 1 = 2^32 - 1 is held as -1.
wrapping_sub(a, b) == a - b

\* unlink_count with the decrement forgotten
unlink_count_nodec(map, ino, old_count) ==
  LET inserted == insert(map, ino, old_count)
  IN IF old_count = 0 THEN remove(inserted, ino) ELSE inserted

\* the table after unlink_file's update (lines 228-232)
unlink_count(map, ino, old_count) ==
  LET inserted == insert(map, ino, wrapping_sub(old_count, 1))
  IN IF old_count = 0 THEN remove(inserted, ino) ELSE inserted

\* unlink_file that also clears the inode the name resolved to
unlink_file_clears(fs, map, file_name, overflow_checks) ==
  LET inode == find(fs, file_name)
  IN IF inode # NoInode
     THEN LET old_count == get_or(map, inode, 1)
          IN IF old_count = 0 /\ overflow_checks
             THEN [ret |-> 0, fs |-> clear(unlink(fs, file_name), inode), map |-> map,
                   old |-> old_count, ino |-> inode, panic |-> TRUE]
             ELSE [ret |-> 0, fs |-> clear(unlink(fs, file_name), inode),
                   map |-> unlink_count(map, inode, old_count),
                   old |-> old_count, ino |-> inode, panic |-> FALSE]
     ELSE [ret |-> -1, fs |-> fs, map |-> map, old |-> 0, ino |-> NoInode, panic |-> FALSE]

\* overflow_checks: whether the build panics on old_count - 1 below 0
unlink_file(fs, map, file_name, overflow_checks) ==
  LET inode == find(fs, file_name)
  IN IF inode # NoInode
     THEN LET old_count == get_or(map, inode, 1)
          IN IF old_count = 0 /\ overflow_checks
             THEN [ret |-> 0, fs |-> unlink(fs, file_name), map |-> map,
                   old |-> old_count, ino |-> inode, panic |-> TRUE]
             ELSE [ret |-> 0, fs |-> unlink(fs, file_name),
                   map |-> unlink_count(map, inode, old_count),
                   old |-> old_count, ino |-> inode, panic |-> FALSE]
     ELSE [ret |-> -1, fs |-> fs, map |-> map, old |-> 0, ino |-> NoInode, panic |-> FALSE]

\* ---------------------------------------------------------------------
\* The state machine: one action per call
\* ---------------------------------------------------------------------
\* A UserBuffer is one user-space byte range cut into slices at a page boundary. BufShapes:
\* the lengths of its one or two slices, for every total length up to one byte more than a
\* file can hold
BufShapes ==
  {<<l>> : l \in 1..(EngineCapacity + 1)}
    \cup {p \in (1..EngineCapacity) \X (1..EngineCapacity) : p[1] + p[2] <= EngineCapacity + 1}

\* the n bytes of a user buffer: 1, 2, ..., n
UserBytes(n) == [i \in 1..n |-> i]

\* bytes cut into slices of the given lengths
RECURSIVE Cut(_, _)
Cut(bytes, lens) ==
  IF lens = <<>> THEN <<>>
  ELSE <<SubSeq(bytes, 1, Head(lens))>>
         \o Cut(SubSeq(bytes, Head(lens) + 1, Len(bytes)), Tail(lens))

\* the buffers read is given: those shapes, and buffers whose first slice is empty
ReadBufs == BufShapes \cup {<<0, l>> : l \in 1..EngineCapacity}
WriteBufs == {Cut(UserBytes(Sum(lens)), lens) : lens \in BufShapes}

\* The record of a call. ret: the status code, byte count or link count returned, or the slot
\* of the object open returned (NoSlot for none). name, name2: its names (0: no such argument).
\* ino: the inode it worked on. h: the slot of the object it was called on. old: the effective
\* link count of ino before link/unlink, the size of the named file before open, the dev of
\* stat. req: the bytes read/write was asked to move, the flag bits open was given, 1 or 0 for
\* the mode DIR or FILE of stat. rkey, wkey: the table keys link read and wrote; rkey of open:
\* the inode the name resolved to before the call.
OpRec(op, ret, name, name2, ino, h, old, req, rkey, wkey, cr, tr) ==
  [op |-> op, ret |-> ret, name |-> name, name2 |-> name2, ino |-> ino, h |-> h,
   old |-> old, req |-> req, rkey |-> rkey, wkey |-> wkey, create |-> cr, trunc |-> tr]

\* no link_file or unlink_file call is under way. pc: the position in link_steps or
\* unlink_steps (0: returned). engine: the engine operation the statement just executed
\* called. log: what the call has mutated so far, "name" or "table", in order.
NoCall ==
  [op |-> "none", pc |-> 0, name |-> 0, name2 |-> 0, ok |-> FALSE, inode |-> NoInode,
   new_inode |-> NoInode, old_count |-> 0, ret |-> 0, engine |-> "none", log |-> <<>>]

\* the call paths that may be inside the kernel at once
Paths == {1, 2}

\* a call path that is in no call. bufs: the slices still to go. start: the cursor when the
\* call got exclusive access. total: the bytes counted so far. n: the engine's last count.
NoPath ==
  [op |-> "none", pc |-> "idle", h |-> NoSlot, bufs |-> <<>>, start |-> 0, total |-> 0,
   n |-> 0]

\* the contents of the file the disk image holds at boot: the k bytes k, k - 1, ..., 1
ImageContent(k) == [i \in 1..k |-> k + 1 - i]

\* At boot the disk image is empty or holds one full file, under name 1; the table is empty
Init ==
  /\ \/ /\ dir = [n \in Names |-> NoInode]
        /\ nextIno = 0
        /\ data = [i \in Inodes |-> <<>>]
     \/ /\ dir = [n \in Names |-> IF n = 1 THEN 1 ELSE NoInode]
        /\ nextIno = 1
        /\ data = [i \in Inodes |-> IF i = 1 THEN ImageContent(EngineCapacity) ELSE <<>>]
  /\ INODE_LINK_MAP = <<>>
  /\ handles = [s \in Slots |-> NoHandle]
  /\ moved = [s \in Slots |-> 0]
  /\ panicked = FALSE
  /\ lastOp = OpRec("init", 0, 0, 0, NoInode, NoSlot, 0, 0, NoInode, NoInode, FALSE, FALSE)
  /\ call = NoCall
  /\ tableHeld = FALSE
  /\ paths = [p \in Paths |-> NoPath]
  /\ holder = [s \in Slots |-> 0]

FreeSlots == {s \in Slots : ~handles[s].live}
LowestFree == CHOOSE s \in FreeSlots : \A t \in FreeSlots : s <= t

SetFS(fs) ==
  /\ dir' = fs.dir
  /\ nextIno' = fs.next
  /\ data' = fs.data

\* sys_open -> open_file(name, flags); the object goes to the lowest free slot
Open(name, flags, ok) ==
  \E r \in {open_file(FS, name, flags, ok)} :
     /\ ~panicked
     /\ r.some => FreeSlots # {}
     /\ SetFS(r.fs)
     /\ IF r.some
        THEN /\ handles' = [handles EXCEPT ![LowestFree] = r.handle]
             /\ moved' = [moved EXCEPT ![LowestFree] = 0]
        ELSE UNCHANGED <<handles, moved>>
     /\ lastOp' = OpRec("open", IF r.some THEN LowestFree ELSE NoSlot, name, 0,
                        r.handle.inode, IF r.some THEN LowestFree ELSE NoSlot,
                        IF dir[name] # NoInode THEN Len(data[dir[name]]) ELSE 0, flags,
                        dir[name], NoInode, contains(flags, CREATE), contains(flags, TRUNC))
     /\ UNCHANGED <<INODE_LINK_MAP, panicked, stepVars>>

\* the last Arc<OSInode> is dropped (the file descriptor is closed)
Drop(s) ==
  /\ ~panicked
  /\ handles[s].live
  /\ handles' = [handles EXCEPT ![s] = NoHandle]
  /\ moved' = [moved EXCEPT ![s] = 0]
  /\ lastOp' = OpRec("drop", 0, 0, 0, handles[s].inode, s, 0, 0,
                     NoInode, NoInode, FALSE, FALSE)
  /\ UNCHANGED <<dir, nextIno, data, INODE_LINK_MAP, panicked, stepVars>>

Read(s, slices) ==
  /\ ~panicked
  /\ handles[s].live
  /\ \E r \in {read(handles[s], data[handles[s].inode], slices)} :
     /\ handles' = [handles EXCEPT ![s] = r.inner]
     /\ moved' = [moved EXCEPT ![s] = @ + SumLen(r.got)]
     /\ lastOp' = OpRec("read", r.ret, 0, 0, handles[s].inode, s, 0, Sum(slices),
                        NoInode, NoInode, FALSE, FALSE)
     /\ UNCHANGED <<dir, nextIno, data, INODE_LINK_MAP, panicked, stepVars>>

Write(s, bufs) ==
  /\ ~panicked
  /\ handles[s].live
  /\ \E r \in {write(handles[s], data[handles[s].inode], bufs)} :
     /\ handles' = [handles EXCEPT ![s] = r.inner]
     /\ data' = [data EXCEPT ![handles[s].inode] = r.content]
     /\ moved' = [moved EXCEPT ![s] = @ + Sum(r.xfer)]
     /\ panicked' = r.panic
     /\ lastOp' = OpRec("write", r.ret, 0, 0, handles[s].inode, s, 0, SumLen(bufs),
                        NoInode, NoInode, FALSE, FALSE)
     /\ UNCHANGED <<dir, nextIno, INODE_LINK_MAP, stepVars>>

Stat(s) ==
  /\ ~panicked
  /\ handles[s].live
  /\ \E st \in {stat(handles[s], INODE_LINK_MAP)} :
     /\ lastOp' = OpRec("stat", st.nlink, 0, 0, st.ino, s, st.dev,
                        IF st.mode = "DIR" THEN 1 ELSE 0, NoInode, NoInode, FALSE, FALSE)
     /\ UNCHANGED <<dir, nextIno, data, INODE_LINK_MAP, handles, moved, panicked, stepVars>>

Link(old_name, new_name, ok) ==
  \E r \in {link_file(FS, INODE_LINK_MAP, old_name, new_name, ok)} :
     /\ ~panicked
     /\ SetFS(r.fs)
     /\ INODE_LINK_MAP' = r.map
     /\ lastOp' = OpRec("link", r.ret, old_name, new_name, r.wkey, NoSlot,
                        IF r.ret = 0 THEN get_or(INODE_LINK_MAP, r.wkey, 1) ELSE 0, 0,
                        r.rkey, r.wkey, FALSE, FALSE)
     /\ UNCHANGED <<handles, moved, panicked, stepVars>>

Unlink(name, overflow_checks) ==
  \E r \in {unlink_file(FS, INODE_LINK_MAP, name, overflow_checks)} :
     /\ ~panicked
     /\ SetFS(r.fs)
     /\ INODE_LINK_MAP' = r.map
     /\ panicked' = r.panic
     /\ lastOp' = OpRec("unlink", r.ret, name, 0, r.ino, NoSlot, r.old, 0,
                        NoInode, NoInode, FALSE, FALSE)
     /\ UNCHANGED <<handles, moved, stepVars>>

\* The calls that work on names and the Link-Count Table
Next ==
  \/ \E name \in Names, flags \in OpenInputs, ok \in BOOLEAN : Open(name, flags, ok)
  \/ \E s \in Slots : Drop(s)
  \/ \E s \in Slots : Stat(s)
  \/ \E old_name \in Names, new_name \in Names, ok \in BOOLEAN : Link(old_name, new_name, ok)
  \/ \E name \in Names, overflow_checks \in BOOLEAN : Unlink(name, overflow_checks)

Spec == Init /\ [][Next]_vars

\* The calls that work on Open-File Objects, all of them opened by the name of the image's file
NextIO ==
  \/ \E flags \in OpenInputs, ok \in BOOLEAN : Open(1, flags, ok)
  \/ \E s \in Slots : Drop(s)
  \/ \E s \in Slots, slices \in ReadBufs : Read(s, slices)
  \/ \E s \in Slots, bufs \in WriteBufs : Write(s, bufs)

SpecIO == Init /\ [][NextIO]_vars

\* The open calls on the name of the image's file, with every combination of the flag bits
NextFlags ==
  \/ \E flags \in AllFlags, ok \in BOOLEAN : Open(1, flags, ok)
  \/ \E s \in Slots : Drop(s)

SpecFlags == Init /\ [][NextFlags]_vars

\* ---------------------------------------------------------------------
\* link_file and unlink_file, one statement at a time
\* ---------------------------------------------------------------------
\* the statements of link_file in program order (lines 199-217)
link_steps == <<"eq", "find", "create_link", "lock", "count", "insert", "ret">>

\* unlink_steps with the table updated before the name is removed
unlink_steps_table_first == <<"find", "lock", "count", "insert", "remove", "unlink", "ret">>

\* the statements of unlink_file in program order (lines 220-238)
unlink_steps == <<"find", "unlink", "lock", "count", "insert", "remove", "ret">>

steps(op) == IF op = "link" THEN link_steps ELSE unlink_steps

\* the call under way is an op call about to execute the statement label
At(op, label) ==
  /\ ~panicked
  /\ call.op = op
  /\ call.pc \in DOMAIN steps(op)
  /\ steps(op)[call.pc] = label

PcOf(op, label) == CHOOSE i \in DOMAIN steps(op) : steps(op)[i] = label

\* the call goes on to its next statement with the fields of c
Step(c) == call' = [c EXCEPT !.pc = call.pc + 1]

\* the call leaves for its last statement with the result ret
Leave(c, ret) == call' = [c EXCEPT !.pc = PcOf(call.op, "ret"), !.ret = ret]

\* sys_linkat -> link_file(old_name, new_name)
CallLink(old_name, new_name, ok) ==
  /\ ~panicked
  /\ call.pc = 0
  /\ call' = [NoCall EXCEPT !.op = "link", !.pc = 1, !.name = old_name,
                            !.name2 = new_name, !.ok = ok]
  /\ UNCHANGED <<dir, nextIno, data, INODE_LINK_MAP, handles, moved, panicked, lastOp,
                 tableHeld, paths, holder>>

\* if old_name == new_name { return -1; }
LinkEq ==
  /\ At("link", "eq")
  /\ IF call.name = call.name2
     THEN Leave([call EXCEPT !.engine = "none"], -1)
     ELSE Step([call EXCEPT !.engine = "none"])
  /\ UNCHANGED <<dir, nextIno, data, INODE_LINK_MAP, handles, moved, panicked, lastOp,
                 tableHeld, paths, holder>>

\* if let Some(old_inode) = ROOT_INODE.find(old_name)
LinkFind ==
  /\ At("link", "find")
  /\ \E old_inode \in {find(FS, call.name)} :
        IF old_inode # NoInode
        THEN Step([call EXCEPT !.engine = "find", !.inode = old_inode])
        ELSE Leave([call EXCEPT !.engine = "find"], -1)
  /\ UNCHANGED <<dir, nextIno, data, INODE_LINK_MAP, handles, moved, panicked, lastOp,
                 tableHeld, paths, holder>>

\* if let Some(new_inode) = ROOT_INODE.create_link(new_name, old_inode.get_inode())
LinkCreateLink ==
  /\ At("link", "create_link")
  /\ \E l \in {create_link(FS, call.name2, call.inode, call.ok)} :
        /\ SetFS(l.fs)
        /\ IF l.some
           THEN Step([call EXCEPT !.engine = "create_link", !.new_inode = l.ino,
                                  !.log = Append(@, "name")])
           ELSE Leave([call EXCEPT !.engine = "create_link"], -1)
  /\ UNCHANGED <<INODE_LINK_MAP, handles, moved, panicked, lastOp, tableHeld, paths, holder>>

\* let mut inner = INODE_LINK_MAP.exclusive_access();
LinkLock ==
  /\ At("link", "lock")
  /\ ~tableHeld
  /\ tableHeld' = TRUE
  /\ Step([call EXCEPT !.engine = "none"])
  /\ UNCHANGED <<dir, nextIno, data, INODE_LINK_MAP, handles, moved, panicked, lastOp,
                 paths, holder>>

\* let old_count = inner.get(&new_inode.get_inode().into()).cloned().unwrap_or(1);
LinkCount ==
  /\ At("link", "count")
  /\ Step([call EXCEPT !.engine = "get_inode",
                       !.old_count = get_or(INODE_LINK_MAP, call.new_inode, 1)])
  /\ UNCHANGED <<dir, nextIno, data, INODE_LINK_MAP, handles, moved, panicked, lastOp,
                 tableHeld, paths, holder>>

\* inner.insert(old_inode.get_inode().into(), old_count + 1); 0
LinkInsert ==
  /\ At("link", "insert")
  /\ INODE_LINK_MAP' = insert(INODE_LINK_MAP, call.inode, link_count(call.old_count))
  /\ Step([call EXCEPT !.engine = "get_inode", !.ret = 0, !.log = Append(@, "table")])
  /\ UNCHANGED <<dir, nextIno, data, handles, moved, panicked, lastOp, tableHeld,
                 paths, holder>>

\* link_file returns: inner, if it was taken, is dropped
LinkRet ==
  /\ At("link", "ret")
  /\ tableHeld' = FALSE
  /\ call' = [call EXCEPT !.pc = 0, !.engine = "none"]
  /\ UNCHANGED <<dir, nextIno, data, INODE_LINK_MAP, handles, moved, panicked, lastOp,
                 paths, holder>>

\* sys_unlinkat -> unlink_file(file_name)
CallUnlink(file_name) ==
  /\ ~panicked
  /\ call.pc = 0
  /\ call' = [NoCall EXCEPT !.op = "unlink", !.pc = 1, !.name = file_name]
  /\ UNCHANGED <<dir, nextIno, data, INODE_LINK_MAP, handles, moved, panicked, lastOp,
                 tableHeld, paths, holder>>

\* if let Some(inode) = ROOT_INODE.find(file_name)
UnlinkFind ==
  /\ At("unlink", "find")
  /\ \E inode \in {find(FS, call.name)} :
        IF inode # NoInode
        THEN Step([call EXCEPT !.engine = "find", !.inode = inode])
        ELSE Leave([call EXCEPT !.engine = "find"], -1)
  /\ UNCHANGED <<dir, nextIno, data, INODE_LINK_MAP, handles, moved, panicked, lastOp,
                 tableHeld, paths, holder>>

\* inode.unlink(file_name);
UnlinkEngine ==
  /\ At("unlink", "unlink")
  /\ SetFS(unlink(FS, call.name))
  /\ Step([call EXCEPT !.engine = "unlink", !.log = Append(@, "name")])
  /\ UNCHANGED <<INODE_LINK_MAP, handles, moved, panicked, lastOp, tableHeld, paths, holder>>

\* let mut inner = INODE_LINK_MAP.exclusive_access();
UnlinkLock ==
  /\ At("unlink", "lock")
  /\ ~tableHeld
  /\ tableHeld' = TRUE
  /\ Step([call EXCEPT !.engine = "none"])
  /\ UNCHANGED <<dir, nextIno, data, INODE_LINK_MAP, handles, moved, panicked, lastOp,
                 paths, holder>>

\* let old_count = inner.get(&inode.get_inode().into()).cloned().unwrap_or(1);
UnlinkCount ==
  /\ At("unlink", "count")
  /\ Step([call EXCEPT !.engine = "get_inode",
                       !.old_count = get_or(INODE_LINK_MAP, call.inode, 1)])
  /\ UNCHANGED <<dir, nextIno, data, INODE_LINK_MAP, handles, moved, panicked, lastOp,
                 tableHeld, paths, holder>>

\* inner.insert(inode.get_inode().into(), old_count - 1);
UnlinkInsert(overflow_checks) ==
  /\ At("unlink", "insert")
  /\ IF call.old_count = 0 /\ overflow_checks
     THEN /\ panicked' = TRUE
          /\ UNCHANGED <<INODE_LINK_MAP, call>>
     ELSE /\ INODE_LINK_MAP' = insert(INODE_LINK_MAP, call.inode,
                                      wrapping_sub(call.old_count, 1))
          /\ Step([call EXCEPT !.engine = "get_inode", !.log = Append(@, "table")])
          /\ UNCHANGED panicked
  /\ UNCHANGED <<dir, nextIno, data, handles, moved, lastOp, tableHeld, paths, holder>>

\* if old_count == 0 { inner.remove(&inode.get_inode().into()); } 0
UnlinkRemove ==
  /\ At("unlink", "remove")
  /\ IF call.old_count = 0
     THEN /\ INODE_LINK_MAP' = remove(INODE_LINK_MAP, call.inode)
          /\ Step([call EXCEPT !.engine = "get_inode", !.ret = 0,
                               !.log = Append(@, "table")])
     ELSE /\ Step([call EXCEPT !.engine = "none", !.ret = 0])
          /\ UNCHANGED INODE_LINK_MAP
  /\ UNCHANGED <<dir, nextIno, data, handles, moved, panicked, lastOp, tableHeld,
                 paths, holder>>

\* unlink_file returns: inner, if it was taken, is dropped
UnlinkRet ==
  /\ At("unlink", "ret")
  /\ tableHeld' = FALSE
  /\ call' = [call EXCEPT !.pc = 0, !.engine = "none"]
  /\ UNCHANGED <<dir, nextIno, data, INODE_LINK_MAP, handles, moved, panicked, lastOp,
                 paths, holder>>

\* link_file and unlink_file calls, run to completion one after the other
NextSteps ==
  \/ \E old_name \in Names, new_name \in Names, ok \in BOOLEAN :
        CallLink(old_name, new_name, ok)
  \/ LinkEq
  \/ LinkFind
  \/ LinkCreateLink
  \/ LinkLock
  \/ LinkCount
  \/ LinkInsert
  \/ LinkRet
  \/ \E file_name \in Names : CallUnlink(file_name)
  \/ UnlinkFind
  \/ UnlinkEngine
  \/ UnlinkLock
  \/ UnlinkCount
  \/ \E overflow_checks \in BOOLEAN : UnlinkInsert(overflow_checks)
  \/ UnlinkRemove
  \/ UnlinkRet

SpecSteps == Init /\ [][NextSteps]_vars

\* ---------------------------------------------------------------------
\* OSInode::read, write and read_all, one statement at a time, on two call paths
\* ---------------------------------------------------------------------
\* the length of read_all's buffer: let mut buffer = [0u8; 512]
ReadAllChunk == 512

\* the slice lengths the calls are made with
CallShapes == {<<1>>, <<1, 1>>}

\* the calls a call path makes: the operation and its slices (a read into two slices, a
\* write of one slice or of two, a read_all)
CallInputs ==
  {<<"read", <<1, 1>>>>}
    \cup {<<"write", Cut(UserBytes(Sum(lens)), lens)>> : lens \in CallShapes}
    \cup {<<"read_all", <<>>>>}

\* exclusive_access that hands the cell out while it is held
exclusive_access_shared(held_by) == TRUE

\* UPSafeCell::exclusive_access(): the cell is handed out when nobody holds it
exclusive_access(held_by) == held_by = 0

\* the calls that are inside the exclusive section of the object in slot s
Inside(s) == {p \in Paths : paths[p].h = s /\ paths[p].pc \in {"loop", "advance", "ret"}}

\* a call path enters read(buf), write(buf) or read_all() on the object in slot s
Call(p, s, op, bufs) ==
  /\ ~panicked
  /\ paths[p].pc = "idle"
  /\ handles[s].live
  /\ paths' = [paths EXCEPT ![p] = [NoPath EXCEPT !.op = op, !.pc = "lock", !.h = s,
                                                   !.bufs = bufs]]
  /\ UNCHANGED <<dir, nextIno, data, INODE_LINK_MAP, handles, moved, panicked, lastOp,
                 call, tableHeld, holder>>

\* let mut inner = self.inner.exclusive_access();
ExclusiveAccess(p) ==
  /\ ~panicked
  /\ paths[p].pc = "lock"
  /\ exclusive_access(holder[paths[p].h])
  /\ holder' = [holder EXCEPT ![paths[p].h] = p]
  /\ paths' = [paths EXCEPT ![p].pc = "loop", ![p].start = handles[paths[p].h].offset]
  /\ UNCHANGED <<dir, nextIno, data, INODE_LINK_MAP, handles, moved, panicked, lastOp,
                 call, tableHeld>>

\* the head of the loop and the engine call of its body: inner.inode.read_at(inner.offset,
\* *slice), inner.inode.write_at(inner.offset, *slice) or read_at(inner.offset, &mut buffer)
Transfer(p) ==
  /\ ~panicked
  /\ paths[p].pc = "loop"
  /\ LET c == paths[p]
         inner == handles[c.h]
     IN IF c.op # "read_all" /\ c.bufs = <<>>
        THEN /\ paths' = [paths EXCEPT ![p].pc = "ret"]
             /\ UNCHANGED data
        ELSE IF c.op = "write"
        THEN \E w \in {write_at(data[inner.inode], inner.offset, Head(c.bufs))} :
                /\ data' = [data EXCEPT ![inner.inode] = w.content]
                /\ paths' = [paths EXCEPT ![p].pc = "advance", ![p].n = w.n]
        ELSE /\ paths' = [paths EXCEPT
                  ![p].pc = "advance",
                  ![p].n = Len(read_at(data[inner.inode], inner.offset,
                                       IF c.op = "read" THEN Head(c.bufs) ELSE ReadAllChunk))]
             /\ UNCHANGED data
  /\ UNCHANGED <<dir, nextIno, INODE_LINK_MAP, handles, moved, panicked, lastOp,
                 call, tableHeld, holder>>

\* the rest of the loop body: the break on a count of 0 (read, read_all), the assert_eq!
\* (write), inner.offset += the count, the total
Advance(p) ==
  /\ ~panicked
  /\ paths[p].pc = "advance"
  /\ LET c == paths[p]
         inner == handles[c.h]
     IN IF c.op = "write"
        THEN IF ~assert_eq(c.n, Len(Head(c.bufs)))
             THEN /\ panicked' = TRUE
                  /\ moved' = [moved EXCEPT ![c.h] = @ + c.n]
                  /\ UNCHANGED <<handles, paths>>
             ELSE /\ handles' = [handles EXCEPT ![c.h].offset =
                                   write_advance(inner.offset, c.n, Len(Head(c.bufs)))]
                  /\ moved' = [moved EXCEPT ![c.h] = @ + c.n]
                  /\ paths' = [paths EXCEPT ![p].pc = "loop", ![p].bufs = Tail(c.bufs),
                                            ![p].total = @ + c.n]
                  /\ UNCHANGED panicked
        ELSE IF c.n = 0
        THEN /\ paths' = [paths EXCEPT ![p].pc = "ret"]
             /\ UNCHANGED <<handles, moved, panicked>>
        ELSE /\ handles' = [handles EXCEPT ![c.h].offset =
                              read_advance(inner.offset, c.n,
                                           IF c.op = "read" THEN Head(c.bufs) ELSE ReadAllChunk)]
             /\ moved' = [moved EXCEPT ![c.h] = @ + c.n]
             /\ paths' = [paths EXCEPT ![p].pc = "loop", ![p].total = @ + c.n,
                                       ![p].bufs = IF c.op = "read" THEN Tail(c.bufs) ELSE <<>>]
             /\ UNCHANGED panicked
  /\ UNCHANGED <<dir, nextIno, data, INODE_LINK_MAP, lastOp, call, tableHeld, holder>>

\* the call returns its total: inner is dropped
Return(p) ==
  /\ ~panicked
  /\ paths[p].pc = "ret"
  /\ holder' = [holder EXCEPT ![paths[p].h] = 0]
  /\ paths' = [paths EXCEPT ![p] = NoPath]
  /\ UNCHANGED <<dir, nextIno, data, INODE_LINK_MAP, handles, moved, panicked, lastOp,
                 call, tableHeld>>

\* read, write and read_all calls of two call paths on the objects opened on the image's file
NextCalls ==
  \/ \E ok \in BOOLEAN : Open(1, RDWR, ok)
  \/ \E p \in Paths, s \in Slots, in \in CallInputs : Call(p, s, in[1], in[2])
  \/ \E p \in Paths : ExclusiveAccess(p)
  \/ \E p \in Paths : Transfer(p)
  \/ \E p \in Paths : Advance(p)
  \/ \E p \in Paths : Return(p)

SpecCalls == Init /\ [][NextCalls]_vars

TypeOK ==
  /\ dir \in [Names -> Inodes \cup {NoInode}]
  /\ nextIno \in 0..MaxInodes
  /\ DOMAIN INODE_LINK_MAP \subseteq Inodes
  /\ \A s \in Slots : handles[s].offset \in 0..EngineCapacity
  /\ panicked \in BOOLEAN

\* ---------------------------------------------------------------------
\* Properties
\* ---------------------------------------------------------------------
NamesOf(i) == {n \in Names : dir[n] = i}
Allocated == 1..nextIno
Fresh(name) == open_file(FS, name, 0, TRUE)

\* C1: for every inode whose table entry is >= 2, exactly that many names resolve to it,
\* and for every inode with no table entry, exactly one name resolves to it.
C1_LinkCountMatchesNames ==
  \A i \in Allocated :
    /\ (i \in DOMAIN INODE_LINK_MAP /\ INODE_LINK_MAP[i] >= 2)
         => Cardinality(NamesOf(i)) = INODE_LINK_MAP[i]
    /\ i \notin DOMAIN INODE_LINK_MAP => Cardinality(NamesOf(i)) = 1

\* a link or unlink has left an inode with an entry of 2 or more and as many names
C1_Witness ==
  /\ lastOp.op \in {"link", "unlink"}
  /\ \E i \in Allocated : i \in DOMAIN INODE_LINK_MAP /\ INODE_LINK_MAP[i] >= 2
                          /\ Cardinality(NamesOf(i)) >= 2

\* C2: after unlink succeeds on an inode whose effective link count was 1, the table has no
\* entry for that inode, and stat on any handle to it reports link count 1.
C2_ZeroCountEntryRemoved ==
  (lastOp.op = "unlink" /\ lastOp.ret = 0 /\ lastOp.old = 1 /\ ~panicked)
    => /\ lastOp.ino \notin DOMAIN INODE_LINK_MAP
       /\ \A s \in Slots : (handles[s].live /\ handles[s].inode = lastOp.ino)
                             => stat(handles[s], INODE_LINK_MAP).nlink = 1

\* C3: whenever link returns 0, the entry of the linked inode is its previous effective count
\* plus 1, hence >= 2, the key read is the key written, and stat through an object opened by
\* either name reports that count.
C3_LinkIncrementsCount ==
  (lastOp.op = "link" /\ lastOp.ret = 0)
    => /\ lastOp.wkey \in DOMAIN INODE_LINK_MAP
       /\ INODE_LINK_MAP[lastOp.wkey] = lastOp.old + 1
       /\ INODE_LINK_MAP[lastOp.wkey] >= 2
       /\ lastOp.rkey = lastOp.wkey
       /\ \A n \in {lastOp.name, lastOp.name2} :
            /\ Fresh(n).some
            /\ Fresh(n).handle.inode = lastOp.wkey
            /\ stat(Fresh(n).handle, INODE_LINK_MAP).nlink = INODE_LINK_MAP[lastOp.wkey]

\* a link has succeeded on an inode of effective count 1 that an open object refers to
C3_Witness ==
  /\ lastOp.op = "link" /\ lastOp.ret = 0
  /\ lastOp.old = 1
  /\ INODE_LINK_MAP[lastOp.wkey] = 2
  /\ \E s \in Slots : handles[s].live /\ handles[s].inode = lastOp.wkey

RECURSIVE Flatten(_)
Flatten(ss) == IF ss = <<>> THEN <<>> ELSE Head(ss) \o Flatten(Tail(ss))

\* the object open_file(name, RDONLY) returns in the state after the step
FreshAfter(name) == open_file([dir |-> dir', next |-> nextIno', data |-> data'], name, 0, TRUE)

\* C4: after unlink(A) succeeds on a name whose inode had link count 2, stat through the
\* remaining name B reports link count 1, B still resolves to the inode, and the inode's
\* contents are read in full through an object opened by B.
C4_UnlinkOfTwoKeepsOther ==
  [][(lastOp'.op = "unlink" /\ lastOp'.ret = 0 /\ lastOp'.old = 2)
       => \A b \in Names :
            (b # lastOp'.name /\ dir[b] = lastOp'.ino)
              => /\ FreshAfter(b).some
                 /\ FreshAfter(b).handle.inode = lastOp'.ino
                 /\ stat(FreshAfter(b).handle, INODE_LINK_MAP').nlink = 1
                 /\ Flatten(read(FreshAfter(b).handle, data'[lastOp'.ino],
                                 <<EngineCapacity>>).got) = data[lastOp'.ino]]_vars

\* an unlink of one of two names has succeeded, and the file is not empty
C4_Witness ==
  /\ lastOp.op = "unlink" /\ lastOp.ret = 0 /\ lastOp.old = 2
  /\ Cardinality(NamesOf(lastOp.ino)) = 1
  /\ data[lastOp.ino] # <<>>

\* C5: link(A, A) returns -1 and leaves the directory entries and the table as they were,
\* whether or not A resolves.
C5_SelfLinkRejected ==
  [][(lastOp'.op = "link" /\ lastOp'.name = lastOp'.name2)
       => /\ lastOp'.ret = -1
          /\ UNCHANGED <<dir, nextIno, data, INODE_LINK_MAP>>]_vars

\* a link of a name that resolves to itself has been made
C5_Witness ==
  /\ lastOp.op = "link" /\ lastOp.name = lastOp.name2
  /\ dir[lastOp.name] # NoInode

\* C6: link and unlink return only 0 or -1, and whenever either returns -1 the table and the
\* directory entries are unchanged and there is no panic.
C6_FailureLeavesNoTrace ==
  [][(lastOp'.op \in {"link", "unlink"})
       => /\ lastOp'.ret \in {0, -1}
          /\ lastOp'.ret = -1
               => (UNCHANGED <<dir, nextIno, data, INODE_LINK_MAP>> /\ ~panicked')]_vars

\* a link of a name that resolves has been refused by the engine
C6_Witness ==
  /\ lastOp.op = "link" /\ lastOp.ret = -1
  /\ lastOp.name # lastOp.name2
  /\ dir[lastOp.name] # NoInode
  /\ INODE_LINK_MAP # <<>>

\* C8: open with CREATE on a name that already resolves empties that inode and returns an
\* object on the same inode id: no inode is created and the table is as it was.
C8_CreateOnExistingTruncates ==
  [][(lastOp'.op = "open" /\ lastOp'.create /\ dir[lastOp'.name] # NoInode)
       => /\ lastOp'.ret # NoSlot
          /\ handles'[lastOp'.ret].live
          /\ handles'[lastOp'.ret].inode = dir[lastOp'.name]
          /\ data'[dir[lastOp'.name]] = <<>>
          /\ dir' = dir
          /\ nextIno' = nextIno
          /\ INODE_LINK_MAP' = INODE_LINK_MAP]_vars

\* an open with CREATE has emptied a file that had contents and a link count of 2
C8_Witness ==
  /\ lastOp.op = "open" /\ lastOp.create
  /\ lastOp.rkey # NoInode /\ lastOp.old > 0
  /\ lastOp.rkey \in DOMAIN INODE_LINK_MAP /\ INODE_LINK_MAP[lastOp.rkey] = 2

\* C9: whenever open returns no object, the directory entries, the files' contents and the
\* table are unchanged, and an open without CREATE never adds a name.
C9_FailedOpenLeavesNoTrace ==
  [][(lastOp'.op = "open")
       => /\ lastOp'.ret = NoSlot => UNCHANGED <<dir, nextIno, data, INODE_LINK_MAP>>
          /\ ~lastOp'.create => dir' = dir]_vars

\* an open with CREATE of a missing name has returned no object: the engine refused to create
C9_Witness ==
  /\ lastOp.op = "open" /\ lastOp.ret = NoSlot /\ lastOp.create
  /\ dir[lastOp.name] = NoInode
  /\ \E n \in Names : dir[n] # NoInode /\ data[dir[n]] # <<>>

\* C7: the cursor of every Open-File Object equals the sum of the byte counts the engine
\* transferred in its read and write calls so far, never a length asked for and not
\* transferred, and each call returns the amount by which it advanced the cursor.
C7_CursorIsBytesTransferred ==
  /\ [](~panicked => \A s \in Slots : handles[s].live => handles[s].offset = moved[s])
  /\ [][(lastOp'.op \in {"read", "write"} /\ ~panicked')
          => lastOp'.ret = handles'[lastOp'.h].offset - handles[lastOp'.h].offset]_vars

\* a read has come back short, on an object that had moved bytes before
C7_Witness ==
  /\ lastOp.op = "read"
  /\ lastOp.ret > 0 /\ lastOp.ret < lastOp.req
  /\ handles[lastOp.h].offset > lastOp.ret

\* C10: an object returned by open starts with cursor 0, and a read or write on one object
\* leaves every other object, its cursor included, as it was.
C10_IndependentCursors ==
  [][/\ (lastOp'.op = "open" /\ lastOp'.ret # NoSlot) => handles'[lastOp'.ret].offset = 0
     /\ lastOp'.op \in {"read", "write"}
          => \A s \in Slots \ {lastOp'.h} : handles'[s] = handles[s]]_vars

\* two objects opened by the same name stand at different cursors after a read or write
C10_Witness ==
  /\ lastOp.op \in {"read", "write"} /\ lastOp.ret > 0
  /\ \E s \in Slots \ {lastOp.h} :
       /\ handles[s].live
       /\ handles[s].inode = handles[lastOp.h].inode
       /\ handles[s].offset > 0
       /\ handles[s].offset # handles[lastOp.h].offset

\* C12: bytes written through one object from offset 0 are read back, the same bytes in the
\* same order, from offset 0 through an object opened by a name of the file without CREATE
\* or TRUNC.
C12_WriteReadRoundTrip ==
  [][(lastOp'.op = "write" /\ ~panicked' /\ handles[lastOp'.h].offset = 0)
       => \A n \in Names :
            dir'[n] = lastOp'.ino
              => /\ FreshAfter(n).some
                 /\ FreshAfter(n).handle.offset = 0
                 /\ Flatten(read(FreshAfter(n).handle, data'[lastOp'.ino],
                                 <<lastOp'.req>>).got) = UserBytes(lastOp'.req)]_vars

\* an object has read back, from offset 0, a full file that another object wrote
C12_Witness ==
  /\ lastOp.op = "read" /\ lastOp.ret = EngineCapacity
  /\ handles[lastOp.h].offset = EngineCapacity
  /\ data[lastOp.ino] = UserBytes(EngineCapacity)
  /\ \E s \in Slots \ {lastOp.h} :
       handles[s].live /\ handles[s].inode = lastOp.ino /\ handles[s].offset = EngineCapacity

\* C16: an open that truncates a file leaves every object that was open as it was, and a
\* read on an object whose cursor is at or beyond the size of its file transfers 0 bytes and
\* leaves the cursor where it was.
C16_TruncationKeepsCursors ==
  [][/\ (lastOp'.op = "open" /\ lastOp'.rkey # NoInode /\ (lastOp'.create \/ lastOp'.trunc))
          => /\ data'[lastOp'.rkey] = <<>>
             /\ \A s \in Slots \ {lastOp'.ret} : handles'[s] = handles[s]
     /\ (lastOp'.op = "read" /\ handles[lastOp'.h].offset >= Len(data[lastOp'.ino]))
          => /\ lastOp'.ret = 0
             /\ handles' = handles]_vars

\* a read has transferred nothing on an object whose cursor a truncation left beyond the end
C16_Witness ==
  /\ lastOp.op = "read" /\ lastOp.ret = 0
  /\ handles[lastOp.h].offset > Len(data[lastOp.ino])

\* the cursor before slice i of a read that filled the chunks got
OffsetBefore(offset, got, i) == offset + SumLen(SubSeq(got, 1, i - 1))

\* C17: read fills the slices in order up to, and not including, the first slice for which the
\* engine reads 0 bytes; the cursor advances by, and the call returns, the bytes of the
\* slices before that one.
C17_ReadStopsAtFirstEmptyRead ==
  \A s \in Slots : handles[s].live =>
    \A slices \in ReadBufs :
      LET content == data[handles[s].inode]
          offset == handles[s].offset
          r == read(handles[s], content, slices)
          k == Len(r.got)
      IN /\ k <= Len(slices)
         /\ \A i \in 1..k :
              /\ r.got[i] # <<>>
              /\ r.got[i] = read_at(content, OffsetBefore(offset, r.got, i), slices[i])
         /\ k < Len(slices)
              => read_at(content, OffsetBefore(offset, r.got, k + 1), slices[k + 1]) = <<>>
         /\ r.ret = SumLen(r.got)
         /\ r.inner.offset = offset + SumLen(r.got)

\* a read has stopped at an empty first slice although the file had bytes left
C17_Witness ==
  /\ lastOp.op = "read" /\ lastOp.ret = 0 /\ lastOp.req > 0
  /\ handles[lastOp.h].offset < Len(data[lastOp.ino])

\* the engine writes slice i of bufs short, the cursor being offset before the first slice
ShortAt(offset, bufs, i) ==
  write_at(<<>>, offset + SumLen(SubSeq(bufs, 1, i - 1)), bufs[i]).n # Len(bufs[i])

\* C19: if the engine writes a slice short, write panics and the cursor has advanced by the
\* slices before that one only; when every slice is written in full, write returns the sum
\* of the slice lengths.
C19_ShortWriteIsFatal ==
  \A s \in Slots : handles[s].live =>
    \A bufs \in WriteBufs :
      LET offset == handles[s].offset
          r == write(handles[s], data[handles[s].inode], bufs)
          short == {i \in 1..Len(bufs) : ShortAt(offset, bufs, i)}
      IN /\ short = {} => (~r.panic /\ r.ret = SumLen(bufs)
                            /\ r.inner.offset = offset + SumLen(bufs))
         /\ short # {} =>
              \E i \in short :
                /\ \A j \in short : i <= j
                /\ r.panic
                /\ r.inner.offset = offset + SumLen(SubSeq(bufs, 1, i - 1))

\* a write has panicked on a slice the engine wrote a part of
C19_Witness ==
  /\ lastOp.op = "write" /\ panicked
  /\ moved[lastOp.h] > handles[lastOp.h].offset
  /\ handles[lastOp.h].offset > 0

\* C13: for every combination of the flag bits, an object is readable and not writable when
\* no bit is set, writable and not readable whenever the WRONLY bit is set, and both otherwise.
C13_FlagDecoding ==
  (lastOp.op = "open" /\ lastOp.ret # NoSlot)
    => LET bits == lastOp.req
           h == handles[lastOp.ret]
       IN /\ bits = 0 => (h.readable /\ ~h.writable)
          /\ bits % 2 = 1 => (~h.readable /\ h.writable)
          /\ (bits # 0 /\ bits % 2 = 0) => (h.readable /\ h.writable)

\* an open with the WRONLY and RDWR bits, and CREATE, has returned a write-only object
C13_Witness ==
  /\ lastOp.op = "open" /\ lastOp.ret # NoSlot
  /\ lastOp.req = WRONLY + RDWR + CREATE
  /\ ~handles[lastOp.ret].readable /\ handles[lastOp.ret].writable

\* C14: stat reports as link count the table's entry for the object's inode, or 1 when there
\* is none, with device 0 and the mode of the inode's kind, and changes neither the table nor
\* any cursor.
C14_StatReportsTableEntry ==
  [][(lastOp'.op = "stat")
       => /\ lastOp'.ino = handles[lastOp'.h].inode
          /\ lastOp'.ret = IF lastOp'.ino \in DOMAIN INODE_LINK_MAP
                           THEN INODE_LINK_MAP[lastOp'.ino] ELSE 1
          /\ lastOp'.old = 0
          /\ (lastOp'.req = 1) <=> is_dir(lastOp'.ino)
          /\ UNCHANGED <<INODE_LINK_MAP, handles, dir, nextIno, data>>]_vars

\* stat has reported the entry of 2 that the table holds for the object's inode
C14_Witness ==
  /\ lastOp.op = "stat" /\ lastOp.ret = 2
  /\ lastOp.ino \in DOMAIN INODE_LINK_MAP
  /\ INODE_LINK_MAP[lastOp.ino] = 2
  /\ handles[lastOp.h].inode = lastOp.ino

\* C20: every unlink that succeeds finds an effective count of at least 1, so count - 1 does
\* not underflow: there is no overflow panic and the table holds no wrapped value.
C20_UnlinkNeverUnderflows ==
  /\ (lastOp.op = "unlink" /\ lastOp.ret = 0) => lastOp.old >= 1
  /\ ~panicked
  /\ \A i \in DOMAIN INODE_LINK_MAP : INODE_LINK_MAP[i] >= 0

\* the last name of an inode that had two has been unlinked, from an entry of 1
C20_Witness ==
  /\ lastOp.op = "unlink" /\ lastOp.ret = 0 /\ lastOp.old = 1
  /\ lastOp.ino \in DOMAIN INODE_LINK_MAP
  /\ INODE_LINK_MAP[lastOp.ino] = 0
  /\ NamesOf(lastOp.ino) = {}

\* C15: link and unlink call no engine operation while they hold exclusive access to the
\* Link-Count Table.
C15_NoEngineCallUnderTable ==
  tableHeld => call.engine = "none"

\* C18: in a successful unlink the name stops resolving strictly before the table is
\* updated, nothing but the table is mutated after that, and the call's mutations are the
\* name first and the table last.
C18_NameRemovedBeforeDecrement ==
  [][(call.op = "unlink" /\ call.pc # 0)
       => /\ INODE_LINK_MAP' # INODE_LINK_MAP
               => (dir[call.name] = NoInode /\ call.log = <<"name">>)
          /\ (\E i \in DOMAIN call.log : call.log[i] = "table")
               => UNCHANGED <<dir, nextIno, data>>
          /\ (call'.pc = 0 /\ call'.ret = 0)
               => (Len(call.log) >= 2 /\ call.log[1] = "name"
                   /\ call.log[Len(call.log)] = "table")]_vars

\* the intermediate state: the name is removed and the count of 2 is not yet decremented,
\* with one name left for the inode
C18_Witness ==
  /\ call.op = "unlink" /\ call.pc # 0
  /\ call.log = <<"name">>
  /\ dir[call.name] = NoInode
  /\ get_or(INODE_LINK_MAP, call.inode, 1) = 2
  /\ Cardinality(NamesOf(call.inode)) = 1

\* C11: read, write and read_all calls on one object are serialized: at most one call is
\* inside the object's exclusive section, the section is held exactly by the call inside it
\* and by nobody once the call has returned, the cursor moves only by the steps of the call
\* inside, and every byte count a call adds is in the cursor.
C11_CallsSerialized ==
  \A s \in Slots :
     /\ Cardinality(Inside(s)) <= 1
     /\ \A p \in Paths : (holder[s] = p) <=> (p \in Inside(s))
     /\ \A p \in Inside(s) : handles[s].offset = paths[p].start + paths[p].total
     /\ handles[s].live => handles[s].offset = moved[s]

\* one call is inside the section of an object, past its first transfer, while the other call
\* path waits to enter a call on the same object
C11_Witness ==
  \E p \in Paths, q \in Paths :
     /\ p # q
     /\ paths[p].h = paths[q].h
     /\ paths[p].pc = "loop" /\ paths[p].total > 0
     /\ paths[q].pc = "lock"
     /\ holder[paths[p].h] = p

====
